---- MODULE Spec2Model ----
(***************************************************************************)
(* Agent deployment controller (docs/alt/main.go): an informer feeds a     *)
(* rate-limited work queue of resource keys; a pool of workers drains the  *)
(* queue and reconciles each key against the API server.                   *)
(*                                                                         *)
(* The work queue is client-go's workqueue.RateLimitingInterface.  Its     *)
(* operations are modelled at the places main.go calls them, with the      *)
(* behaviour of that library: a FIFO `queue`, the `dirty` set (keys that   *)
(* need processing), the `processing` set (keys a worker holds), the       *)
(* per-item failure counter of the exponential rate limiter, and the set   *)
(* of keys waiting for a delayed add.  The token bucket of the default     *)
(* rate limiter (burst 100) is taken to hold tokens, so the delay of a     *)
(* retry is the delay of the per-item exponential limiter.                 *)
(***************************************************************************)
EXTENDS Integers, Sequences, FiniteSets, TLC

\* ---------------------------------------------------------------- bounds
\* the `workers` argument of Controller.Run (main passes 3)
NumWorkers == 2
\* number of modifications of one Agent resource that are followed
MaxVersion == 2
\* number of SubmitTask calls that are followed
MaxTasks == 2
\* enqueue events of a key not yet matched by a reconcile that are counted
MaxCredit == 2
\* notifications the informer's connection may lose
MaxLost == 1
\* failures in a row of one item that the rate limiter is asked about
MaxFailures == 20
MaxTokens == 2
MaxPending == 1

\* ------------------------------------------------------ program constants
maxRetries == 5
BaseDelay == 5
MaxDelay == 1000000

\* resource keys as cache.MetaNamespaceKeyFunc builds them: namespace/name
Keys == {"default/a1"}
ParKeys == {"default/a1", "default/a2", "default/a3"}
WorkerIds == 1..NumWorkers
Images == {"v1", "v2"}
NotFound == "NotFound"
NoKey == "none"
NoTask == [seq |-> 0, AgentID |-> "none", Action |-> "none"]
PodImage == "busybox"
EventTypes == {"add", "update", "delete"}

VARIABLES
    agents,       \* API server: key -> image of the Agent resource, or NotFound
    pods,         \* API server: key -> image of the agent's Pod, or NotFound
    informer,     \* [state, hasSynced, notify]
    wq,           \* work queue: [queue, dirty, processing, shuttingDown]
    failures,     \* rate limiter: key -> number of requeues
    waiting,      \* keys with a delayed add pending (AddAfter)
    stopCh,       \* TRUE once the stop channel is closed
    runPc,        \* position of Controller.Run
    closes,       \* number of close(stopCh) executed
    pc,           \* worker -> position in wait.Until / processNextItem
    wkey,         \* worker -> key returned by queue.Get
    agent,        \* worker -> what reconcile read for the Agent
    err,          \* worker -> reconcile returned an error
    fatal,        \* worker -> that error is permanent (Forbidden, Invalid)
    calls,        \* worker -> mutating adapter calls made by this reconcile
    lastDelay,    \* key -> delay of the latest AddRateLimited since Forget
    streak,       \* key -> reconciles started since the last Forget
    noise,        \* key -> a notification arrived while the key was active
    ver,          \* key -> number of modifications of the Agent so far
    readVer,      \* worker -> version of the Agent its reconcile read
    lastRead,     \* key -> version read by the latest reconcile of the key
    applied,      \* key -> version read by the latest reconcile that succeeded
    credit,       \* key -> enqueue events minus reconciles started, up to MaxCredit
    lost,         \* number of notifications lost so far
    taskQueue,    \* Orchestrator: buffered channel of tasks
    chClosed,     \* Orchestrator: close(taskQueue) has run
    ctxDone,      \* Orchestrator: cancel() has run
    opc,          \* Orchestrator worker -> position in its loop
    otask,        \* Orchestrator worker -> task received from the channel
    sdPc,         \* position of Orchestrator.Shutdown
    sent,         \* tasks SubmitTask has put on the channel, in order
    sentBefore,   \* number of tasks sent when Shutdown was called
    adapterCalls, \* Adapter: the calls made, in order
    panicked,     \* a send on the closed channel has panicked
    adapterRet,   \* task number -> what the adapter method returned, or "none"
    oret,         \* task number -> what handleTask returned, or "none"
    authState,    \* AuthService: value of authStateSubject
    kc,           \* the Keycloak adapter: [authenticated, token, roles]
    initPc,       \* position of initKeycloak
    onTokenExpired, \* TRUE once initKeycloak has set keycloak.onTokenExpired
    refreshPending, \* number of keycloak.updateToken calls not yet settled
    profilePending, \* number of updateAuthState calls awaiting loadUserProfile
    loggedOut,    \* who has called logout() since the application was loaded, or "no"
    guard         \* the last canActivate observed: [role, state, result, effect]

controllerVars == <<agents, pods, informer, wq, failures, waiting, stopCh, runPc, closes, pc,
                    wkey, agent, err, fatal, calls, lastDelay, streak, noise>>
versionVars == <<ver, readVer, lastRead, applied>>
auxVars == <<credit, lost>>
orchVars == <<taskQueue, chClosed, ctxDone, opc, otask, sdPc, sent, sentBefore,
              adapterCalls, panicked, adapterRet, oret>>
authVars == <<authState, kc, initPc, onTokenExpired, refreshPending, profilePending,
              loggedOut, guard>>
vars == <<controllerVars, versionVars, auxVars, orchVars, authVars>>

envVars == <<agents, pods>>
workerVars == <<pc, wkey, agent, err, fatal, calls>>
ghostVars == <<lastDelay, streak, noise>>

\* ------------------------------------------------------------ pure helpers
RECURSIVE Pow2(_)
Pow2(n) == IF n = 0 THEN 1 ELSE 2 * Pow2(n - 1)

Min(a, b) == IF a < b THEN a ELSE b

InSeq(s, x) == \E i \in 1..Len(s) : s[i] = x

Count(s, x) == Cardinality({i \in 1..Len(s) : s[i] = x})

\* ------------------------------------------------------------- work queue
\* queue.Add(item)
AddNoProcessingCheck(q, item) ==
    IF q.shuttingDown THEN q
    ELSE IF item \in q.dirty THEN q
    ELSE [q EXCEPT !.dirty = @ \cup {item}, !.queue = Append(@, item)]

AddNoDirtyCheck(q, item) ==
    IF q.shuttingDown THEN q
    ELSE IF item \in q.processing THEN [q EXCEPT !.dirty = @ \cup {item}]
    ELSE [q EXCEPT !.dirty = @ \cup {item}, !.queue = Append(@, item)]

AddIgnoresShutDown(q, item) ==
    IF item \in q.dirty THEN q
    ELSE IF item \in q.processing THEN [q EXCEPT !.dirty = @ \cup {item}]
    ELSE [q EXCEPT !.dirty = @ \cup {item}, !.queue = Append(@, item)]

AddDropsInFlight(q, item) ==
    IF q.shuttingDown THEN q
    ELSE IF item \in q.dirty \cup q.processing THEN q
    ELSE [q EXCEPT !.dirty = @ \cup {item}, !.queue = Append(@, item)]

Add(q, item) ==
    IF q.shuttingDown THEN q
    ELSE IF item \in q.dirty THEN q
    ELSE IF item \in q.processing THEN [q EXCEPT !.dirty = @ \cup {item}]
    ELSE [q EXCEPT !.dirty = @ \cup {item}, !.queue = Append(@, item)]

\* AddFunc / UpdateFunc / DeleteFunc: the queue after the handler of an event
\* of type t for the object with key item
OnEventSkipsDelete(q, item, t) ==
    CASE t = "add" -> Add(q, item)
      [] t = "update" -> Add(q, item)
      [] t = "delete" -> q

OnEvent(q, item, t) ==
    CASE t = "add" -> Add(q, item)
      [] t = "update" -> Add(q, item)
      [] t = "delete" -> Add(q, item)

\* queue.Get(): the state after the head item is handed to a worker
GetItemNoProcessing(q) ==
    [q EXCEPT !.queue = Tail(@), !.dirty = @ \ {Head(q.queue)}]

GetItem(q) ==
    [q EXCEPT !.queue = Tail(@),
              !.processing = @ \cup {Head(q.queue)},
              !.dirty = @ \ {Head(q.queue)}]

\* queue.Done(item)
DoneNoRequeue(q, item) == [q EXCEPT !.processing = @ \ {item}]

DoneAlwaysRequeue(q, item) ==
    [q EXCEPT !.processing = @ \ {item}, !.queue = Append(@, item)]

Done(q, item) ==
    IF item \in q.dirty
    THEN [q EXCEPT !.processing = @ \ {item}, !.queue = Append(@, item)]
    ELSE [q EXCEPT !.processing = @ \ {item}]

\* queue.ShutDown()
ShutDown(q) == [q EXCEPT !.shuttingDown = TRUE]

\* rate limiter: When(item) of the per-item exponential limiter, for an item
\* with n earlier failures
WhenConstant(n) == BaseDelay

WhenUncapped(n) == BaseDelay * Pow2(n)

When(n) == Min(BaseDelay * Pow2(n), MaxDelay)

\* queue.NumRequeues(item)
NumRequeuesOffByOne(f, item) == f[item] - 1

NumRequeues(f, item) == f[item]

\* queue.Forget(item)
ForgetNoReset(f, item) == f

Forget(f, item) == [f EXCEPT ![item] = 0]

\* queue.AddAfter(item, d): the waiting set after the call.  AddAfter adds at
\* once only for d <= 0, and When never returns less than BaseDelay.
AddAfter(q, w, item, d) ==
    IF q.shuttingDown THEN w
    ELSE w \cup {item}

\* ------------------------------------------------------------------- Init
\* the controller built by NewController over the Agents with keys K
InitController(K) ==
    /\ agents \in [K -> Images \cup {NotFound}]
    /\ pods = [k \in K |-> NotFound]
    /\ informer = [state |-> "idle", hasSynced |-> FALSE, notify |-> {}]
    /\ wq = [queue |-> <<>>, dirty |-> {}, processing |-> {}, shuttingDown |-> FALSE]
    /\ failures = [k \in K |-> 0]
    /\ waiting = {}
    /\ stopCh = FALSE
    /\ runPc = "start"
    /\ closes = 0
    /\ pc = [w \in WorkerIds |-> "init"]
    /\ wkey = [w \in WorkerIds |-> NoKey]
    /\ agent = [w \in WorkerIds |-> "none"]
    /\ err = [w \in WorkerIds |-> FALSE]
    /\ fatal = [w \in WorkerIds |-> FALSE]
    /\ calls = [w \in WorkerIds |-> {}]
    /\ lastDelay = [k \in K |-> 0]
    /\ streak = [k \in K |-> 0]
    /\ noise = [k \in K |-> FALSE]

InitVersions(K) ==
    /\ ver = [k \in K |-> 0]
    /\ readVer = [w \in WorkerIds |-> 0]
    /\ lastRead = [k \in K |-> 0]
    /\ applied = [k \in K |-> 0]
    /\ credit = [k \in K |-> 0]
    /\ lost = 0

\* the Orchestrator right after NewOrchestrator(adapter, count)
InitOrchestrator(count) ==
    /\ taskQueue = <<>>
    /\ chClosed = FALSE
    /\ ctxDone = FALSE
    /\ opc = [w \in WorkerIds |-> IF w <= count THEN "select" ELSE "none"]
    /\ otask = [w \in WorkerIds |-> NoTask]
    /\ sdPc = "idle"
    /\ sent = <<>>
    /\ sentBefore = 0
    /\ adapterCalls = <<>>
    /\ panicked = FALSE
    /\ adapterRet = [n \in 1..MaxTasks |-> "none"]
    /\ oret = [n \in 1..MaxTasks |-> "none"]

\* ------------------------------------------------------------ AuthService
\* AuthState.token: null
NoToken == 0
\* AuthState.user: null
NoUser == [id |-> "null", roles |-> {}]
\* route.data['role'] of a route that declares no role
NoRole == ""
Roles == {"user", "admin"}
RoleSets == {{}, {"user"}, {"user", "admin"}}
NoSession == [authenticated |-> FALSE, token |-> NoToken, roles |-> {}]

\* the value authStateSubject is constructed with
InitialAuthState ==
    [isAuthenticated |-> FALSE, user |-> NoUser, token |-> NoToken, loading |-> TRUE]

NoGuard == [called |-> FALSE, role |-> NoRole, state |-> InitialAuthState,
            result |-> FALSE, effect |-> "none"]

\* new AuthService: the constructor has called initKeycloak, which awaits
\* keycloak.init
InitAuth ==
    /\ authState = InitialAuthState
    /\ kc = NoSession
    /\ initPc = "init"
    /\ onTokenExpired = FALSE
    /\ refreshPending = 0
    /\ profilePending = 0
    /\ loggedOut = "no"
    /\ guard = NoGuard

\* the controller binary: no Orchestrator is built
Init ==
    /\ InitController(Keys)
    /\ InitVersions(Keys)
    /\ InitOrchestrator(0)
    /\ InitAuth

queueVars == <<wq, failures, waiting>>
ctlVars == <<stopCh, runPc, closes>>

Alive == runPc # "exited"

\* a key the queue, the rate limiter or a worker still holds
Active(k) ==
    \/ InSeq(wq.queue, k)
    \/ k \in wq.dirty \cup wq.processing \cup waiting
    \/ failures[k] > 0

\* ------------------------------------------------ desired state (API users)
\* an Agent resource is created, modified or deleted on the API server
ModifyAgent(k, v) ==
    /\ Alive
    /\ agents[k] # v
    /\ agents' = [agents EXCEPT ![k] = v]
    /\ informer' = IF informer.state = "running" /\ informer.hasSynced
                   THEN [informer EXCEPT !.notify = @ \cup {k}]
                   ELSE informer
    /\ UNCHANGED <<pods, queueVars, ctlVars, workerVars, ghostVars>>

AgentChange(k, v) ==
    /\ ModifyAgent(k, v)
    /\ UNCHANGED <<versionVars, auxVars, orchVars, authVars>>

\* --------------------------------------------------------------- informer
\* The keys of the informer's store.  The store lags the API server only by
\* the events not yet handled, and those keys are in `notify` already, so the
\* store and the API server agree on every key outside `notify`.
Listed == {k \in DOMAIN agents : agents[k] # NotFound}

\* informer.Run: the initial list fills the cache and fires AddFunc per object
InformerList ==
    /\ Alive
    /\ informer.state = "running"
    /\ ~informer.hasSynced
    /\ informer' = [informer EXCEPT !.hasSynced = TRUE, !.notify = Listed]
    /\ UNCHANGED <<envVars, queueVars, ctlVars, workerVars, ghostVars>>
    /\ UNCHANGED <<versionVars, auxVars, orchVars, authVars>>

HandleEventForgets(k, t) ==
    /\ Alive
    /\ informer.state = "running"
    /\ k \in informer.notify
    /\ informer' = [informer EXCEPT !.notify = @ \ {k}]
    /\ wq' = OnEvent(wq, k, t)
    /\ noise' = [noise EXCEPT ![k] = Active(k)]
    /\ failures' = Forget(failures, k)
    /\ UNCHANGED <<envVars, waiting, ctlVars, workerVars, lastDelay, streak>>

\* AddFunc / UpdateFunc / DeleteFunc: every handler does queue.Add(key)
HandleEvent(k, t) ==
    /\ Alive
    /\ informer.state = "running"
    /\ k \in informer.notify
    /\ informer' = [informer EXCEPT !.notify = @ \ {k}]
    /\ wq' = OnEvent(wq, k, t)
    /\ noise' = [noise EXCEPT ![k] = Active(k)]
    /\ UNCHANGED <<envVars, failures, waiting, ctlVars, workerVars, lastDelay, streak>>

EventHandler(k) ==
    /\ \E t \in EventTypes : HandleEvent(k, t)
    /\ UNCHANGED <<versionVars, auxVars, orchVars, authVars>>

ResyncNothing ==
    /\ Alive
    /\ informer.state = "running"
    /\ informer.hasSynced
    /\ ~(Listed \subseteq informer.notify)
    /\ informer' = informer
    /\ UNCHANGED <<envVars, queueVars, ctlVars, workerVars, ghostVars>>
    /\ UNCHANGED <<versionVars, auxVars, orchVars, authVars>>

\* the resync period elapses: UpdateFunc fires for every cached object
Resync ==
    /\ Alive
    /\ informer.state = "running"
    /\ informer.hasSynced
    /\ ~(Listed \subseteq informer.notify)
    /\ informer' = [informer EXCEPT !.notify = @ \cup Listed]
    /\ UNCHANGED <<envVars, queueVars, ctlVars, workerVars, ghostVars>>
    /\ UNCHANGED <<versionVars, auxVars, orchVars, authVars>>

\* informer.Run returns once stopCh is closed
InformerStop ==
    /\ Alive
    /\ informer.state = "running"
    /\ stopCh
    /\ informer' = [informer EXCEPT !.state = "stopped", !.notify = {}]
    /\ UNCHANGED <<envVars, queueVars, ctlVars, workerVars, ghostVars>>
    /\ UNCHANGED <<versionVars, auxVars, orchVars, authVars>>

\* a delayed add becomes ready: the queue's waiting loop calls Add
ReadyAdd(k) ==
    /\ Alive
    /\ k \in waiting
    /\ waiting' = waiting \ {k}
    /\ wq' = Add(wq, k)
    /\ UNCHANGED <<envVars, informer, failures, ctlVars, workerVars, lastDelay, streak, noise>>

TimerFire(k) ==
    /\ ReadyAdd(k)
    /\ UNCHANGED <<versionVars, auxVars, orchVars, authVars>>

\* ------------------------------------------------------------- main / Run
\* SIGINT or SIGTERM: the signal goroutine closes stopCh
Signal ==
    /\ Alive
    /\ ~stopCh
    /\ stopCh' = TRUE
    /\ closes' = closes + 1
    /\ UNCHANGED <<envVars, informer, queueVars, runPc, workerVars, ghostVars>>
    /\ UNCHANGED <<versionVars, auxVars, orchVars, authVars>>

\* Run: go c.informer.Run(stopCh)
RunStart ==
    /\ runPc = "start"
    /\ runPc' = "waitSync"
    /\ informer' = [informer EXCEPT !.state = "running"]
    /\ UNCHANGED <<envVars, queueVars, stopCh, closes, workerVars, ghostVars>>
    /\ UNCHANGED <<versionVars, auxVars, orchVars, authVars>>

\* Run: WaitForCacheSync returned true; the workers are started
RunWorkersNoSync ==
    /\ runPc = "waitSync"
    /\ runPc' = "running"
    /\ pc' = [w \in WorkerIds |-> "until"]
    /\ UNCHANGED <<envVars, informer, queueVars, stopCh, closes, wkey, agent, err, fatal, calls, ghostVars>>
    /\ UNCHANGED <<versionVars, auxVars, orchVars, authVars>>

RunWorkers ==
    /\ runPc = "waitSync"
    /\ informer.hasSynced
    /\ runPc' = "running"
    /\ pc' = [w \in WorkerIds |-> "until"]
    /\ UNCHANGED <<envVars, informer, queueVars, stopCh, closes, wkey, agent, err, fatal, calls, ghostVars>>
    /\ UNCHANGED <<versionVars, auxVars, orchVars, authVars>>

\* Run: WaitForCacheSync returned false (stopCh closed); deferred ShutDown
RunSyncFailed ==
    /\ runPc = "waitSync"
    /\ stopCh
    /\ runPc' = "returned"
    /\ wq' = ShutDown(wq)
    /\ UNCHANGED <<envVars, informer, failures, waiting, stopCh, closes, workerVars, ghostVars>>
    /\ UNCHANGED <<versionVars, auxVars, orchVars, authVars>>

\* Run: <-stopCh, then the deferred queue.ShutDown()
RunStop ==
    /\ runPc = "running"
    /\ stopCh
    /\ runPc' = "returned"
    /\ wq' = ShutDown(wq)
    /\ UNCHANGED <<envVars, informer, failures, waiting, stopCh, closes, workerVars, ghostVars>>
    /\ UNCHANGED <<versionVars, auxVars, orchVars, authVars>>

\* main returns after Run and its deferred close(stopCh) runs: the process
\* and all its goroutines end
MainReturn ==
    /\ runPc = "returned"
    /\ runPc' = "exited"
    /\ closes' = closes + 1
    /\ UNCHANGED <<envVars, informer, queueVars, stopCh, workerVars, ghostVars>>
    /\ UNCHANGED <<versionVars, auxVars, orchVars, authVars>>


\* ---------------------------------------------------------------- workers
\* wait.Until(c.worker, time.Second, stopCh): stopCh is checked before each run
Until(w) ==
    /\ Alive
    /\ pc[w] = "until"
    /\ pc' = [pc EXCEPT ![w] = IF stopCh THEN "exited" ELSE "get"]
    /\ UNCHANGED <<envVars, informer, queueVars, ctlVars, wkey, agent, err, fatal, calls, ghostVars>>
    /\ UNCHANGED <<versionVars, auxVars, orchVars, authVars>>

GetSerialized(w) ==
    /\ Alive
    /\ pc[w] = "get"
    /\ wq.queue # <<>>
    /\ wq.processing = {}
    /\ LET k == Head(wq.queue)
       IN /\ wq' = GetItem(wq)
          /\ wkey' = [wkey EXCEPT ![w] = k]
          /\ streak' = [streak EXCEPT ![k] = @ + 1]
    /\ pc' = [pc EXCEPT ![w] = "getAgent"]
    /\ UNCHANGED <<envVars, informer, failures, waiting, ctlVars, agent, err, fatal, calls,
                   lastDelay, noise>>
    /\ UNCHANGED <<versionVars, auxVars, orchVars, authVars>>

\* processNextItem: key, quit := c.queue.Get() hands out the head of the queue
Dequeue(w) ==
    /\ Alive
    /\ pc[w] = "get"
    /\ wq.queue # <<>>
    /\ LET k == Head(wq.queue)
       IN /\ wq' = GetItem(wq)
          /\ wkey' = [wkey EXCEPT ![w] = k]
          /\ streak' = [streak EXCEPT ![k] = @ + 1]
    /\ pc' = [pc EXCEPT ![w] = "getAgent"]
    /\ UNCHANGED <<envVars, informer, failures, waiting, ctlVars, agent, err, fatal, calls,
                   lastDelay, noise>>

Get(w) ==
    /\ Dequeue(w)
    /\ UNCHANGED <<versionVars, auxVars, orchVars, authVars>>

\* processNextItem: Get reports quit (queue shut down and drained); the worker
\* returns and wait.Until, finding stopCh closed, ends the goroutine
GetQuit(w) ==
    /\ Alive
    /\ pc[w] = "get"
    /\ wq.queue = <<>>
    /\ wq.shuttingDown
    /\ pc' = [pc EXCEPT ![w] = "exited"]
    /\ UNCHANGED <<envVars, informer, queueVars, ctlVars, wkey, agent, err, fatal, calls, ghostVars>>
    /\ UNCHANGED <<versionVars, auxVars, orchVars, authVars>>

\* an API call fails: the error is returned to processNextItem, which does not
\* look at its kind
ReturnError(w) ==
    /\ err' = [err EXCEPT ![w] = TRUE]
    /\ \E f \in BOOLEAN : fatal' = [fatal EXCEPT ![w] = f]
    /\ pc' = [pc EXCEPT ![w] = "result"]

\* reconcile: c.dynClient.Resource(gvr).Namespace(namespace).Get(name) reports
\* NotFound: "Agent deleted", return nil
ReadAgentNotFound(w) ==
    /\ Alive
    /\ pc[w] = "getAgent"
    /\ agents[wkey[w]] = NotFound
    /\ agent' = [agent EXCEPT ![w] = NotFound]
    /\ pc' = [pc EXCEPT ![w] = "result"]
    /\ UNCHANGED <<envVars, informer, queueVars, ctlVars, wkey, err, fatal, calls, ghostVars>>

reconcileNotFound(w) ==
    /\ ReadAgentNotFound(w)
    /\ UNCHANGED <<versionVars, auxVars, orchVars, authVars>>

\* reconcile: the Agent is found; go on to c.reconciler.Reconcile(agent)
ReadAgent(w) ==
    /\ Alive
    /\ pc[w] = "getAgent"
    /\ agents[wkey[w]] # NotFound
    /\ agent' = [agent EXCEPT ![w] = agents[wkey[w]]]
    /\ pc' = [pc EXCEPT ![w] = "getPod"]
    /\ UNCHANGED <<envVars, informer, queueVars, ctlVars, wkey, err, fatal, calls, ghostVars>>

reconcileFound(w) ==
    /\ ReadAgent(w)
    /\ UNCHANGED <<versionVars, auxVars, orchVars, authVars>>

\* reconcile: any other error of the Get is returned
reconcileError(w) ==
    /\ Alive
    /\ pc[w] = "getAgent"
    /\ ReturnError(w)
    /\ UNCHANGED <<envVars, informer, queueVars, ctlVars, wkey, agent, calls, ghostVars>>
    /\ UNCHANGED <<versionVars, auxVars, orchVars, authVars>>

reconcile(w) ==
    \/ reconcileNotFound(w)
    \/ reconcileFound(w)
    \/ reconcileError(w)

GetPodFoundRecreates(w) ==
    /\ Alive
    /\ pc[w] = "getPod"
    /\ pods[wkey[w]] # NotFound
    /\ pc' = [pc EXCEPT ![w] = "createPod"]
    /\ UNCHANGED <<envVars, informer, queueVars, ctlVars, wkey, agent, err, fatal, calls, ghostVars>>
    /\ UNCHANGED <<versionVars, auxVars, orchVars, authVars>>

\* K8sAdapter.Reconcile: Pods(namespace).Get(podName) finds the Pod: return nil
GetPodFound(w) ==
    /\ Alive
    /\ pc[w] = "getPod"
    /\ pods[wkey[w]] # NotFound
    /\ pc' = [pc EXCEPT ![w] = "result"]
    /\ UNCHANGED <<envVars, informer, queueVars, ctlVars, wkey, agent, err, fatal, calls, ghostVars>>
    /\ UNCHANGED <<versionVars, auxVars, orchVars, authVars>>

\* K8sAdapter.Reconcile: IsNotFound, go on to create the Pod
GetPodNotFound(w) ==
    /\ Alive
    /\ pc[w] = "getPod"
    /\ pods[wkey[w]] = NotFound
    /\ pc' = [pc EXCEPT ![w] = "createPod"]
    /\ UNCHANGED <<envVars, informer, queueVars, ctlVars, wkey, agent, err, fatal, calls, ghostVars>>
    /\ UNCHANGED <<versionVars, auxVars, orchVars, authVars>>

\* K8sAdapter.Reconcile: any other error of the Get is returned
GetPodError(w) ==
    /\ Alive
    /\ pc[w] = "getPod"
    /\ ReturnError(w)
    /\ UNCHANGED <<envVars, informer, queueVars, ctlVars, wkey, agent, calls, ghostVars>>
    /\ UNCHANGED <<versionVars, auxVars, orchVars, authVars>>

ReconcileGetPod(w) ==
    \/ GetPodFound(w)
    \/ GetPodNotFound(w)
    \/ GetPodError(w)

\* the Pod that K8sAdapter.Reconcile builds for an agent
NewPod(a) == PodImage

CreatePodOkWritesAgent(w) ==
    /\ Alive
    /\ pc[w] = "createPod"
    /\ calls' = [calls EXCEPT ![w] = @ \cup {"Create"}]
    /\ pods' = [pods EXCEPT ![wkey[w]] = NewPod(agent[w])]
    /\ agents' = [agents EXCEPT ![wkey[w]] = NotFound]
    /\ pc' = [pc EXCEPT ![w] = "result"]
    /\ UNCHANGED <<informer, queueVars, ctlVars, wkey, agent, err, fatal, ghostVars>>
    /\ UNCHANGED <<versionVars, auxVars, orchVars, authVars>>

\* K8sAdapter.Reconcile: Pods(namespace).Create(pod) succeeds
CreatePodOk(w) ==
    /\ Alive
    /\ pc[w] = "createPod"
    /\ calls' = [calls EXCEPT ![w] = @ \cup {"Create"}]
    /\ pods' = [pods EXCEPT ![wkey[w]] = NewPod(agent[w])]
    /\ pc' = [pc EXCEPT ![w] = "result"]
    /\ UNCHANGED <<agents, informer, queueVars, ctlVars, wkey, agent, err, fatal, ghostVars>>
    /\ UNCHANGED <<versionVars, auxVars, orchVars, authVars>>

\* K8sAdapter.Reconcile: the error of the Create is returned
CreatePodError(w) ==
    /\ Alive
    /\ pc[w] = "createPod"
    /\ calls' = [calls EXCEPT ![w] = @ \cup {"Create"}]
    /\ ReturnError(w)
    /\ UNCHANGED <<envVars, informer, queueVars, ctlVars, wkey, agent, ghostVars>>
    /\ UNCHANGED <<versionVars, auxVars, orchVars, authVars>>

ReconcileCreatePod(w) ==
    \/ CreatePodOk(w)
    \/ CreatePodError(w)

\* processNextItem: err == nil, c.queue.Forget(key)
ForgetOnSuccess(w) ==
    /\ Alive
    /\ pc[w] = "result"
    /\ ~err[w]
    /\ failures' = Forget(failures, wkey[w])
    /\ lastDelay' = [lastDelay EXCEPT ![wkey[w]] = 0]
    /\ streak' = [streak EXCEPT ![wkey[w]] = 0]
    /\ pc' = [pc EXCEPT ![w] = "done"]
    /\ UNCHANGED <<envVars, informer, wq, waiting, ctlVars, wkey, agent, err, fatal, calls, noise>>

ProcessSuccess(w) ==
    /\ ForgetOnSuccess(w)
    /\ UNCHANGED <<versionVars, auxVars, orchVars, authVars>>

ProcessRetryAlways(w) ==
    /\ Alive
    /\ pc[w] = "result"
    /\ err[w]
    /\ LET k == wkey[w]
           d == When(failures[k])
       IN /\ failures' = [failures EXCEPT ![k] = @ + 1]
          /\ waiting' = AddAfter(wq, waiting, k, d)
          /\ lastDelay' = [lastDelay EXCEPT ![k] = d]
    /\ pc' = [pc EXCEPT ![w] = "done"]
    /\ UNCHANGED <<envVars, informer, wq, ctlVars, wkey, agent, err, fatal, calls,
                   streak, noise>>
    /\ UNCHANGED <<versionVars, auxVars, orchVars, authVars>>

\* processNextItem: NumRequeues(key) < maxRetries, c.queue.AddRateLimited(key)
ProcessRetry(w) ==
    /\ Alive
    /\ pc[w] = "result"
    /\ err[w]
    /\ NumRequeues(failures, wkey[w]) < maxRetries
    /\ LET k == wkey[w]
           d == When(failures[k])
       IN /\ failures' = [failures EXCEPT ![k] = @ + 1]
          /\ waiting' = AddAfter(wq, waiting, k, d)
          /\ lastDelay' = [lastDelay EXCEPT ![k] = d]
    /\ pc' = [pc EXCEPT ![w] = "done"]
    /\ UNCHANGED <<envVars, informer, wq, ctlVars, wkey, agent, err, fatal, calls,
                   streak, noise>>
    /\ UNCHANGED <<versionVars, auxVars, orchVars, authVars>>

ProcessDropAlways(w) ==
    /\ Alive
    /\ pc[w] = "result"
    /\ err[w]
    /\ failures' = Forget(failures, wkey[w])
    /\ lastDelay' = [lastDelay EXCEPT ![wkey[w]] = 0]
    /\ streak' = [streak EXCEPT ![wkey[w]] = 0]
    /\ pc' = [pc EXCEPT ![w] = "done"]
    /\ UNCHANGED <<envVars, informer, wq, waiting, ctlVars, wkey, agent, err, fatal, calls, noise>>
    /\ UNCHANGED <<versionVars, auxVars, orchVars, authVars>>

\* processNextItem: retries exhausted, HandleError and c.queue.Forget(key)
ProcessDrop(w) ==
    /\ Alive
    /\ pc[w] = "result"
    /\ err[w]
    /\ ~(NumRequeues(failures, wkey[w]) < maxRetries)
    /\ failures' = Forget(failures, wkey[w])
    /\ lastDelay' = [lastDelay EXCEPT ![wkey[w]] = 0]
    /\ streak' = [streak EXCEPT ![wkey[w]] = 0]
    /\ pc' = [pc EXCEPT ![w] = "done"]
    /\ UNCHANGED <<envVars, informer, wq, waiting, ctlVars, wkey, agent, err, fatal, calls, noise>>
    /\ UNCHANGED <<versionVars, auxVars, orchVars, authVars>>

\* processNextItem: the deferred c.queue.Done(key); the worker loops
ProcessDone(w) ==
    /\ Alive
    /\ pc[w] = "done"
    /\ wq' = Done(wq, wkey[w])
    /\ pc' = [pc EXCEPT ![w] = "get"]
    /\ wkey' = [wkey EXCEPT ![w] = NoKey]
    /\ agent' = [agent EXCEPT ![w] = "none"]
    /\ err' = [err EXCEPT ![w] = FALSE]
    /\ fatal' = [fatal EXCEPT ![w] = FALSE]
    /\ calls' = [calls EXCEPT ![w] = {}]
    /\ UNCHANGED <<envVars, informer, failures, waiting, ctlVars, ghostVars>>
    /\ UNCHANGED <<versionVars, auxVars, orchVars, authVars>>

processNextItem(w) ==
    \/ Get(w)
    \/ GetQuit(w)
    \/ reconcile(w)
    \/ ReconcileGetPod(w)
    \/ ReconcileCreatePod(w)
    \/ ProcessSuccess(w)
    \/ ProcessRetry(w)
    \/ ProcessDrop(w)
    \/ ProcessDone(w)

Next ==
    \/ \E k \in Keys, v \in Images \cup {NotFound} : AgentChange(k, v)
    \/ InformerList
    \/ \E k \in Keys : EventHandler(k)
    \/ Resync
    \/ InformerStop
    \/ \E k \in Keys : TimerFire(k)
    \/ Signal
    \/ RunStart
    \/ RunWorkers
    \/ RunSyncFailed
    \/ RunStop
    \/ MainReturn
    \/ \E w \in WorkerIds : Until(w)
    \/ \E w \in WorkerIds : processNextItem(w)

Spec == Init /\ [][Next]_vars

\* a worker goroutine that has its reconcile's result keeps running: it calls
\* Forget or AddRateLimited and the deferred Done unless the process exits
FairSpec ==
    Spec /\ \A w \in WorkerIds :
        WF_vars(ProcessSuccess(w) \/ ProcessRetry(w) \/ ProcessDrop(w) \/ ProcessDone(w))


\* ------------------------------------------------- several keys at once
\* The controller over three Agents that exist from the start, from the
\* informer's initial list to the first reconcile of each key, with every API
\* call answering and no stop signal.
ParInit ==
    /\ InitController(ParKeys)
    /\ \A k \in ParKeys : agents[k] = "v1"
    /\ InitVersions(ParKeys)
    /\ InitOrchestrator(0)
    /\ InitAuth

ParWorker(w) ==
    \/ Until(w)
    \/ Get(w)
    \/ reconcileFound(w)
    \/ GetPodNotFound(w)
    \/ CreatePodOk(w)
    \/ ProcessSuccess(w)
    \/ ProcessDone(w)

ParNext ==
    \/ InformerList
    \/ \E k \in ParKeys : EventHandler(k)
    \/ RunStart
    \/ RunWorkers
    \/ \E w \in WorkerIds : ParWorker(w)

\* Run and the informer make progress, and so does every worker goroutine but
\* worker 1, which may stay blocked for ever wherever it is (a network call
\* inside Reconcile has no timeout).
ParSpec ==
    /\ ParInit
    /\ [][ParNext]_vars
    /\ WF_vars(RunStart)
    /\ WF_vars(InformerList)
    /\ WF_vars(RunWorkers)
    /\ \A k \in ParKeys : WF_vars(EventHandler(k))
    /\ \A w \in WorkerIds \ {1} : WF_vars(ParWorker(w))

\* ------------------------------------------------- versions of an Agent
\* The controller with every modification of the Agent numbered, every API
\* call answering and no stop signal.  Modifications start once the informer
\* watches the resource.
VersionedAgentChange(k, v) ==
    /\ informer.hasSynced
    /\ ver[k] < MaxVersion
    /\ ModifyAgent(k, v)
    /\ ver' = [ver EXCEPT ![k] = @ + 1]
    /\ UNCHANGED <<readVer, lastRead, applied, auxVars, orchVars, authVars>>

\* reconcile's Get returns the Agent as the API server holds it now
VersionedRead(w) ==
    /\ ReadAgent(w) \/ ReadAgentNotFound(w)
    /\ readVer' = [readVer EXCEPT ![w] = ver[wkey[w]]]
    /\ lastRead' = [lastRead EXCEPT ![wkey[w]] = ver[wkey[w]]]
    /\ UNCHANGED <<ver, applied, auxVars, orchVars, authVars>>

\* the reconcile returned nil: what it read is what the platform now has
VersionedSuccess(w) ==
    /\ ForgetOnSuccess(w)
    /\ applied' = [applied EXCEPT ![wkey[w]] = readVer[w]]
    /\ UNCHANGED <<ver, readVer, lastRead, auxVars, orchVars, authVars>>

VerWorker(w) ==
    \/ Until(w)
    \/ Get(w)
    \/ VersionedRead(w)
    \/ GetPodFound(w)
    \/ GetPodNotFound(w)
    \/ CreatePodOk(w)
    \/ VersionedSuccess(w)
    \/ ProcessDone(w)

VerNext ==
    \/ \E k \in Keys, v \in Images \cup {NotFound} : VersionedAgentChange(k, v)
    \/ InformerList
    \/ \E k \in Keys : EventHandler(k)
    \/ Resync
    \/ RunStart
    \/ RunWorkers
    \/ \E w \in WorkerIds : VerWorker(w)

VerSpec == Init /\ [][VerNext]_vars

\* ------------------------------------------- enqueue events and reconciles
\* The running controller, with API faults and retries, counting for every key
\* its enqueue events (handler calls and ready delayed adds) against the
\* reconciles started.
CountedEvent(k) ==
    /\ \E t \in EventTypes : HandleEvent(k, t)
    /\ credit' = [credit EXCEPT ![k] = Min(@ + 1, MaxCredit)]
    /\ UNCHANGED <<versionVars, lost, orchVars, authVars>>

CountedReadyAdd(k) ==
    /\ ReadyAdd(k)
    /\ credit' = [credit EXCEPT ![k] = Min(@ + 1, MaxCredit)]
    /\ UNCHANGED <<versionVars, lost, orchVars, authVars>>

CountedDequeue(w) ==
    /\ Dequeue(w)
    /\ credit' = [credit EXCEPT ![wkey'[w]] = @ - 1]
    /\ UNCHANGED <<versionVars, lost, orchVars, authVars>>

CountWorker(w) ==
    \/ Until(w)
    \/ CountedDequeue(w)
    \/ reconcile(w)
    \/ ReconcileGetPod(w)
    \/ ReconcileCreatePod(w)
    \/ ProcessSuccess(w)
    \/ ProcessRetry(w)
    \/ ProcessDrop(w)
    \/ ProcessDone(w)

CountNext ==
    \/ \E k \in Keys, v \in Images \cup {NotFound} : AgentChange(k, v)
    \/ InformerList
    \/ \E k \in Keys : CountedEvent(k)
    \/ Resync
    \/ \E k \in Keys : CountedReadyAdd(k)
    \/ RunStart
    \/ RunWorkers
    \/ \E w \in WorkerIds : CountWorker(w)

CountSpec == Init /\ [][CountNext]_vars

\* ------------------------------------------------- the queue's rate limiter
\* The rate limiter of the queue on its own: AddRateLimited asks When(item)
\* for the delay and counts the failure, Forget(item) clears the count, in any
\* order and for several items.  Here lastDelay is the delay of the latest
\* When of the item.
LimiterInit ==
    /\ InitController(ParKeys)
    /\ \A k \in ParKeys : agents[k] = "v1"
    /\ InitVersions(ParKeys)
    /\ InitOrchestrator(0)
    /\ InitAuth

LimiterWhen(k) ==
    /\ failures[k] < MaxFailures
    /\ lastDelay' = [lastDelay EXCEPT ![k] = When(failures[k])]
    /\ failures' = [failures EXCEPT ![k] = @ + 1]
    /\ UNCHANGED <<envVars, informer, wq, waiting, ctlVars, workerVars, streak, noise>>
    /\ UNCHANGED <<versionVars, auxVars, orchVars, authVars>>

LimiterForget(k) ==
    /\ failures[k] > 0
    /\ failures' = Forget(failures, k)
    /\ UNCHANGED <<envVars, informer, wq, waiting, ctlVars, workerVars, ghostVars>>
    /\ UNCHANGED <<versionVars, auxVars, orchVars, authVars>>

LimiterNext ==
    \/ \E k \in ParKeys : LimiterWhen(k)
    \/ \E k \in ParKeys : LimiterForget(k)

LimiterSpec == LimiterInit /\ [][LimiterNext]_vars

\* ------------------------------------------------------ losses and resync
\* The running controller over Agents that exist, with every API call
\* answering, while the informer's connection may lose notifications and a
\* Pod may disappear from the cluster.
HealInit ==
    /\ Init
    /\ \A k \in Keys : agents[k] # NotFound

\* a notification is lost before its handler runs
LoseNotification(k) ==
    /\ Alive
    /\ informer.state = "running"
    /\ k \in informer.notify
    /\ lost < MaxLost
    /\ lost' = lost + 1
    /\ informer' = [informer EXCEPT !.notify = @ \ {k}]
    /\ UNCHANGED <<envVars, queueVars, ctlVars, workerVars, ghostVars>>
    /\ UNCHANGED <<versionVars, credit, orchVars, authVars>>

\* the Pod of an agent is deleted by someone else
PodDisappears(k) ==
    /\ Alive
    /\ pods[k] # NotFound
    /\ pods' = [pods EXCEPT ![k] = NotFound]
    /\ UNCHANGED <<agents, informer, queueVars, ctlVars, workerVars, ghostVars>>
    /\ UNCHANGED <<versionVars, auxVars, orchVars, authVars>>

HealWorker(w) ==
    \/ Until(w)
    \/ Get(w)
    \/ reconcileFound(w)
    \/ GetPodFound(w)
    \/ GetPodNotFound(w)
    \/ CreatePodOk(w)
    \/ ProcessSuccess(w)
    \/ ProcessDone(w)

HealNext ==
    \/ InformerList
    \/ \E k \in Keys : EventHandler(k)
    \/ \E k \in Keys : LoseNotification(k)
    \/ \E k \in Keys : PodDisappears(k)
    \/ Resync
    \/ RunStart
    \/ RunWorkers
    \/ \E w \in WorkerIds : HealWorker(w)

\* Run, the informer with its periodic resync, the handlers and the worker
\* goroutines all keep running
HealSpec ==
    /\ HealInit
    /\ [][HealNext]_vars
    /\ WF_vars(RunStart)
    /\ WF_vars(InformerList)
    /\ WF_vars(RunWorkers)
    /\ WF_vars(Resync)
    /\ \A k \in Keys : WF_vars(EventHandler(k))
    /\ \A w \in WorkerIds : WF_vars(HealWorker(w))

\* ------------------------------------------------ task-channel Orchestrator
\* capacity of the task channel
ChanCap == 100
TaskActions == {"CREATE", "UPDATE", "DELETE", "RESTART"}
\* the agent every submitted task names
AgentTest == "agent-test"

\* handleTask: the adapter method for a task's Action, "none" for any other
\* what an adapter method, and so handleTask, can return
AdapterErrors == {"nil", "failed"}

MethodSwapped(a) ==
    CASE a = "CREATE" -> "DeployAgent"
      [] a = "UPDATE" -> "DeleteAgent"
      [] a = "DELETE" -> "UpdateAgent"
      [] OTHER -> "none"

Method(a) ==
    CASE a = "CREATE" -> "DeployAgent"
      [] a = "UPDATE" -> "UpdateAgent"
      [] a = "DELETE" -> "DeleteAgent"
      [] OTHER -> "none"

OrchInit ==
    /\ InitController(Keys)
    /\ \A k \in Keys : agents[k] = NotFound
    /\ InitVersions(Keys)
    /\ \E count \in WorkerIds : InitOrchestrator(count)
    /\ InitAuth

\* SubmitTask: o.taskQueue <- task; blocks while the buffer is full and
\* panics on a closed channel
SubmitTask(a) ==
    /\ Len(sent) < MaxTasks
    /\ ~panicked
    /\ IF chClosed
       THEN /\ panicked' = TRUE
            /\ UNCHANGED <<taskQueue, sent>>
       ELSE /\ Len(taskQueue) < ChanCap
            /\ LET task == [seq |-> Len(sent) + 1, AgentID |-> AgentTest, Action |-> a]
               IN /\ taskQueue' = Append(taskQueue, task)
                  /\ sent' = Append(sent, task)
            /\ UNCHANGED panicked
    /\ UNCHANGED <<chClosed, ctxDone, opc, otask, sdPc, sentBefore, adapterCalls>>
    /\ UNCHANGED <<adapterRet, oret>>
    /\ UNCHANGED <<controllerVars, versionVars, auxVars, authVars>>

\* worker: select takes case task := <-o.taskQueue
Receive(w) ==
    /\ opc[w] = "select"
    /\ taskQueue # <<>>
    /\ otask' = [otask EXCEPT ![w] = Head(taskQueue)]
    /\ taskQueue' = Tail(taskQueue)
    /\ opc' = [opc EXCEPT ![w] = "handle"]
    /\ UNCHANGED <<chClosed, ctxDone, sdPc, sent, sentBefore, adapterCalls, panicked>>
    /\ UNCHANGED <<adapterRet, oret>>
    /\ UNCHANGED <<controllerVars, versionVars, auxVars, authVars>>

\* worker: select takes case <-o.ctx.Done() and the goroutine returns
WorkerStop(w) ==
    /\ opc[w] = "select"
    /\ ctxDone
    /\ opc' = [opc EXCEPT ![w] = "exited"]
    /\ UNCHANGED <<taskQueue, chClosed, ctxDone, otask, sdPc, sent, sentBefore,
                   adapterCalls, panicked>>
    /\ UNCHANGED <<adapterRet, oret>>
    /\ UNCHANGED <<controllerVars, versionVars, auxVars, authVars>>

\* handleTask: the switch on task.Action calls the adapter, or returns nil
handleTask(w) ==
    /\ opc[w] = "handle"
    /\ IF Method(otask[w].Action) = "none"
       THEN /\ opc' = [opc EXCEPT ![w] = "select"]
            /\ otask' = [otask EXCEPT ![w] = NoTask]
            /\ oret' = [oret EXCEPT ![otask[w].seq] = "nil"]
            /\ UNCHANGED <<adapterCalls, adapterRet>>
       ELSE /\ opc' = [opc EXCEPT ![w] = "call"]
            /\ adapterCalls' = Append(adapterCalls,
                    [method |-> Method(otask[w].Action), task |-> otask[w]])
            /\ UNCHANGED <<otask, adapterRet, oret>>
    /\ UNCHANGED <<taskQueue, chClosed, ctxDone, sdPc, sent, sentBefore, panicked>>
    /\ UNCHANGED <<controllerVars, versionVars, auxVars, authVars>>

\* the adapter call returns nil or an error and handleTask returns that value;
\* the worker only logs it and loops
AdapterReturn(w) ==
    /\ opc[w] = "call"
    /\ opc' = [opc EXCEPT ![w] = "select"]
    /\ otask' = [otask EXCEPT ![w] = NoTask]
    /\ \E e \in AdapterErrors :
            /\ adapterRet' = [adapterRet EXCEPT ![otask[w].seq] = e]
            /\ oret' = [oret EXCEPT ![otask[w].seq] = e]
    /\ UNCHANGED <<taskQueue, chClosed, ctxDone, sdPc, sent, sentBefore, adapterCalls,
                   panicked>>
    /\ UNCHANGED <<controllerVars, versionVars, auxVars, authVars>>

ShutdownNoCancel ==
    /\ sdPc = "idle"
    /\ sdPc' = "wait"
    /\ sentBefore' = Len(sent)
    /\ UNCHANGED <<taskQueue, chClosed, ctxDone, opc, otask, sent, adapterCalls, panicked>>
    /\ UNCHANGED <<adapterRet, oret>>
    /\ UNCHANGED <<controllerVars, versionVars, auxVars, authVars>>

\* Shutdown: o.cancel()
ShutdownCancel ==
    /\ sdPc = "idle"
    /\ ctxDone' = TRUE
    /\ sdPc' = "wait"
    /\ sentBefore' = Len(sent)
    /\ UNCHANGED <<taskQueue, chClosed, opc, otask, sent, adapterCalls, panicked>>
    /\ UNCHANGED <<adapterRet, oret>>
    /\ UNCHANGED <<controllerVars, versionVars, auxVars, authVars>>

\* Shutdown: o.wg.Wait() returns when every worker has returned, then
\* close(o.taskQueue)
ShutdownClose ==
    /\ sdPc = "wait"
    /\ \A w \in WorkerIds : opc[w] \in {"exited", "none"}
    /\ chClosed' = TRUE
    /\ sdPc' = "returned"
    /\ UNCHANGED <<taskQueue, ctxDone, opc, otask, sent, sentBefore, adapterCalls, panicked>>
    /\ UNCHANGED <<adapterRet, oret>>
    /\ UNCHANGED <<controllerVars, versionVars, auxVars, authVars>>

OrchNext ==
    \/ \E a \in TaskActions : SubmitTask(a)
    \/ \E w \in WorkerIds : Receive(w)
    \/ \E w \in WorkerIds : WorkerStop(w)
    \/ \E w \in WorkerIds : handleTask(w)
    \/ \E w \in WorkerIds : AdapterReturn(w)
    \/ ShutdownCancel
    \/ ShutdownClose

OrchSpec == OrchInit /\ [][OrchNext]_vars

\* The Orchestrator around Shutdown: tasks of one dispatched action and of one
\* action without a method are submitted
ShutdownNext ==
    \/ \E a \in {"CREATE", "RESTART"} : SubmitTask(a)
    \/ \E w \in WorkerIds : Receive(w)
    \/ \E w \in WorkerIds : WorkerStop(w)
    \/ \E w \in WorkerIds : handleTask(w)
    \/ \E w \in WorkerIds : AdapterReturn(w)
    \/ ShutdownCancel
    \/ ShutdownClose

\* The Go scheduler runs every goroutine that can run and every adapter call
\* returns.  A worker's select takes the ctx.Done() case once that case stays
\* ready, which it does from the cancel on whenever the worker is at the
\* select; a worker can be kept from it only by receiving tasks, of which
\* there are finitely many.
OrchFairSpec ==
    /\ OrchInit /\ [][ShutdownNext]_vars
    /\ \A w \in WorkerIds :
        /\ WF_vars(WorkerStop(w))
        /\ WF_vars(handleTask(w))
        /\ WF_vars(AdapterReturn(w))
    /\ WF_vars(ShutdownClose)

\* the adapter calls made for the n-th submitted task
CallsFor(n) == {i \in 1..Len(adapterCalls) : adapterCalls[i].task.seq = n}

\* ------------------------------------------------- AuthService, AuthGuard
\* updateAuthState after loadUserProfile resolved: the state it publishes
Authenticated(k) ==
    [isAuthenticated |-> TRUE, user |-> [id |-> "u1", roles |-> k.roles],
     token |-> k.token, loading |-> FALSE]

\* the state logout publishes
LoggedOut ==
    [isAuthenticated |-> FALSE, user |-> NoUser, token |-> NoToken, loading |-> FALSE]

hasRoleAnyUser(st, role) == st.user # NoUser

\* hasRole: user?.roles.includes(role) || false
hasRole(st, role) == st.user # NoUser /\ role \in st.user.roles

\* AuthGuard.canActivate on the current auth state: the value it emits and
\* the call it makes on the way
canActivate(st, role) ==
    IF st.loading THEN [result |-> FALSE, effect |-> "none"]
    ELSE IF ~st.isAuthenticated THEN [result |-> FALSE, effect |-> "login"]
    ELSE IF role # NoRole /\ ~hasRole(st, role)
         THEN [result |-> FALSE, effect |-> "unauthorized"]
         ELSE [result |-> TRUE, effect |-> "none"]

AuthInit ==
    /\ InitController(Keys)
    /\ \A k \in Keys : agents[k] = NotFound
    /\ InitVersions(Keys)
    /\ InitOrchestrator(0)
    /\ InitAuth

\* initKeycloak: keycloak.init resolves.  Authenticated: updateAuthState is
\* called and awaited.  Not authenticated: onTokenExpired is set and the
\* finally block clears loading.
KeycloakInit ==
    /\ initPc = "init"
    /\ \E a \in BOOLEAN :
        IF a
        THEN /\ \E R \in RoleSets : kc' = [authenticated |-> TRUE, token |-> 1, roles |-> R]
             /\ initPc' = "profile"
             /\ UNCHANGED <<authState, onTokenExpired>>
        ELSE /\ initPc' = "done"
             /\ onTokenExpired' = TRUE
             /\ authState' = [authState EXCEPT !.loading = FALSE]
             /\ UNCHANGED kc
    /\ UNCHANGED <<refreshPending, profilePending, loggedOut, guard>>
    /\ UNCHANGED <<controllerVars, versionVars, auxVars, orchVars>>

\* initKeycloak: keycloak.init throws; catch logs, finally clears loading
KeycloakInitFails ==
    /\ initPc = "init"
    /\ initPc' = "done"
    /\ authState' = [authState EXCEPT !.loading = FALSE]
    /\ UNCHANGED <<kc, onTokenExpired, refreshPending, profilePending, loggedOut, guard>>
    /\ UNCHANGED <<controllerVars, versionVars, auxVars, orchVars>>

\* initKeycloak: the awaited updateAuthState settles (loadUserProfile resolved
\* or threw), onTokenExpired is set and the finally block clears loading
InitProfileLoaded ==
    /\ initPc = "profile"
    /\ initPc' = "done"
    /\ onTokenExpired' = TRUE
    /\ \E ok \in BOOLEAN :
        authState' = IF ok THEN Authenticated(kc)
                     ELSE [authState EXCEPT !.loading = FALSE]
    /\ UNCHANGED <<kc, refreshPending, profilePending, loggedOut, guard>>
    /\ UNCHANGED <<controllerVars, versionVars, auxVars, orchVars>>

\* keycloak.onTokenExpired fires: keycloak.updateToken(30) is started
TokenExpired ==
    /\ onTokenExpired
    /\ kc.token # NoToken
    /\ refreshPending < MaxPending
    /\ refreshPending' = refreshPending + 1
    /\ UNCHANGED <<authState, kc, initPc, onTokenExpired, profilePending, loggedOut, guard>>
    /\ UNCHANGED <<controllerVars, versionVars, auxVars, orchVars>>

\* updateToken resolves: refreshed, updateAuthState is called and not awaited;
\* not refreshed, only a warning
RefreshResolved ==
    /\ refreshPending > 0
    /\ refreshPending' = refreshPending - 1
    /\ \E refreshed \in BOOLEAN :
        IF refreshed
        THEN /\ kc.token # NoToken
             /\ kc.token < MaxTokens
             /\ profilePending < MaxPending
             /\ kc' = [kc EXCEPT !.token = @ + 1]
             /\ profilePending' = profilePending + 1
        ELSE UNCHANGED <<kc, profilePending>>
    /\ UNCHANGED <<authState, initPc, onTokenExpired, loggedOut, guard>>
    /\ UNCHANGED <<controllerVars, versionVars, auxVars, orchVars>>

\* logout: keycloak.logout starts the redirect (the adapter may or may not
\* have dropped its token by the time pending callbacks run), then the
\* unauthenticated state is published
DoLogout(caller) ==
    /\ \E cleared \in BOOLEAN : kc' = IF cleared THEN NoSession ELSE kc
    /\ authState' = LoggedOut
    /\ loggedOut' = caller

\* updateToken rejects: the catch calls logout
RefreshRejected ==
    /\ refreshPending > 0
    /\ refreshPending' = refreshPending - 1
    /\ DoLogout("refresh")
    /\ UNCHANGED <<initPc, onTokenExpired, profilePending, guard>>
    /\ UNCHANGED <<controllerVars, versionVars, auxVars, orchVars>>

\* updateAuthState, called from the refresh: loadUserProfile resolves and the
\* authenticated state is published, or it throws and the error is logged
updateAuthState ==
    /\ profilePending > 0
    /\ profilePending' = profilePending - 1
    /\ \E ok \in BOOLEAN :
        authState' = IF ok THEN Authenticated(kc) ELSE authState
    /\ UNCHANGED <<kc, initPc, onTokenExpired, refreshPending, loggedOut, guard>>
    /\ UNCHANGED <<controllerVars, versionVars, auxVars, orchVars>>

\* the application calls logout
logout ==
    /\ DoLogout("user")
    /\ UNCHANGED <<initPc, onTokenExpired, refreshPending, profilePending, guard>>
    /\ UNCHANGED <<controllerVars, versionVars, auxVars, orchVars>>

\* login: keycloak.login redirects to Keycloak and back; the application is
\* loaded anew and a new AuthService is constructed
login ==
    /\ initPc = "done"
    /\ authState' = InitialAuthState
    /\ kc' = NoSession
    /\ initPc' = "init"
    /\ onTokenExpired' = FALSE
    /\ refreshPending' = 0
    /\ profilePending' = 0
    /\ loggedOut' = "no"
    /\ UNCHANGED guard
    /\ UNCHANGED <<controllerVars, versionVars, auxVars, orchVars>>

\* the router asks AuthGuard.canActivate for a route with the given role
Activate(role) ==
    /\ LET r == canActivate(authState, role)
       IN guard' = [called |-> TRUE, role |-> role, state |-> authState,
                    result |-> r.result, effect |-> r.effect]
    /\ UNCHANGED <<authState, kc, initPc, onTokenExpired, refreshPending, profilePending,
                   loggedOut>>
    /\ UNCHANGED <<controllerVars, versionVars, auxVars, orchVars>>

AuthNext ==
    \/ KeycloakInit
    \/ KeycloakInitFails
    \/ InitProfileLoaded
    \/ TokenExpired
    \/ RefreshResolved
    \/ RefreshRejected
    \/ updateAuthState
    \/ logout
    \/ login
    \/ \E role \in Roles \cup {NoRole} : Activate(role)

AuthSpec == AuthInit /\ [][AuthNext]_vars

\* ------------------------------------------------------------- step names
\* positions at which a worker holds a key handed out by Get
Holding == {"getAgent", "getPod", "createPod", "result", "done"}

Reconciling(k) == {w \in WorkerIds : pc[w] \in Holding /\ wkey[w] = k}

\* a handler or a ready delayed add calls queue.Add(k) in this step
AddStep(k) ==
    \/ k \in informer.notify /\ k \notin informer'.notify /\ informer'.state = "running"
    \/ k \in waiting /\ k \notin waiting'

\* worker w leaves processNextItem's three outcomes in this step
SuccessStep(w) == pc[w] = "result" /\ pc'[w] = "done" /\ ~err[w]
RetryStep(w) ==
    pc[w] = "result" /\ pc'[w] = "done" /\ err[w] /\ failures[wkey[w]] < maxRetries
DropStep(w) ==
    pc[w] = "result" /\ pc'[w] = "done" /\ err[w] /\ failures[wkey[w]] >= maxRetries
DoneStep(w) == pc[w] = "done" /\ pc'[w] = "get"

\* ------------------------------------------------------------------ claims

\* C1: in every reachable state at most one worker is reconciling a given
\* key, and a key a worker holds is not at the same time pending in the queue.
PerKeyMutualExclusion ==
    \A k \in Keys :
        /\ Cardinality(Reconciling(k)) <= 1
        /\ (Reconciling(k) # {} => k \in wq.processing /\ ~InSeq(wq.queue, k))

\* C1 witness: a worker is reconciling a key that was enqueued again while in
\* flight, and another worker is idle in Get.
MutexWitness ==
    \E k \in Keys, w1, w2 \in WorkerIds :
        /\ w1 # w2
        /\ pc[w1] = "getPod" /\ wkey[w1] = k
        /\ k \in wq.dirty
        /\ pc[w2] = "get"

\* C2 (as claimed): once notifications have stopped and nothing is pending or
\* in flight, the Pod of every key equals the desired state of its Agent:
\* present with the Agent's image, absent if the Agent is gone.
Quiescent ==
    /\ runPc = "running" /\ ~stopCh
    /\ informer.state = "running" /\ informer.hasSynced /\ informer.notify = {}
    /\ wq.queue = <<>> /\ wq.dirty = {} /\ wq.processing = {}
    /\ waiting = {}
    /\ \A k \in Keys : failures[k] = 0

ConvergedWhenQuiescent == Quiescent => \A k \in Keys : pods[k] = agents[k]

\* C3 (as claimed): every Enqueue of a key that a worker is reconciling marks
\* the key for one re-run after Done.
InFlightEnqueueMarksDirty ==
    [][\A k \in Keys : (AddStep(k) /\ k \in wq.processing) => k \in wq'.dirty]_vars

\* C3 (amended): an Enqueue of a key a worker is reconciling, made before the
\* queue is shut down, marks the key dirty without queueing it, later ones
\* change nothing, and Done then queues the key exactly once.
InFlightEnqueueRerunsOnce ==
    /\ [][\A k \in Keys : (AddStep(k) /\ k \in wq.processing /\ ~wq.shuttingDown) =>
            /\ k \in wq'.dirty
            /\ wq'.queue = wq.queue
            /\ (k \in wq.dirty => wq' = wq)]_vars
    /\ [][\A w \in WorkerIds : (DoneStep(w) /\ wkey[w] \in wq.dirty) =>
            /\ Count(wq'.queue, wkey[w]) = 1
            /\ wkey[w] \in wq'.dirty
            /\ wkey[w] \notin wq'.processing]_vars

\* C3 witness: a worker is about to call Done on a key that was enqueued while
\* it was reconciling it, and one more notification for the key is pending.
InFlightEnqueueWitness ==
    \E w \in WorkerIds :
        /\ pc[w] = "done"
        /\ wkey[w] \in wq.dirty
        /\ wkey[w] \in informer.notify
        /\ ~wq.shuttingDown

\* C4: the queue never holds two pending items of one key, and an Add of a key
\* that is already pending (from a handler, a resync or a ready retry) leaves
\* the queue unchanged.
QueueDeduplication ==
    /\ [](\A k \in Keys : Count(wq.queue, k) <= 1)
    /\ [][\A k \in Keys : (AddStep(k) /\ InSeq(wq.queue, k)) => wq' = wq]_vars

\* C4 witness: a notification is waiting to be handled for a key that is
\* pending in the queue after an earlier retry.
DedupWitness ==
    \E k \in Keys :
        /\ InSeq(wq.queue, k)
        /\ k \in informer.notify
        /\ failures[k] > 0

\* C5: no worker leaves its initial position, holds a key or calls the adapter
\* before the informer has synced; when Run has returned the queue is shut
\* down; and once Run has returned without starting the workers, none starts.
CacheSyncGating ==
    /\ [](~informer.hasSynced =>
            /\ \A w \in WorkerIds : pc[w] = "init" /\ calls[w] = {}
            /\ wq.processing = {}
            /\ \A k \in Keys : pods[k] = NotFound)
    /\ [](runPc \in {"returned", "exited"} => wq.shuttingDown)
    /\ [][(runPc \in {"returned", "exited"} /\ \A w \in WorkerIds : pc[w] = "init")
            => \A w \in WorkerIds : pc'[w] = "init"]_vars

\* C5 witness: the stop signal arrived before the sync; Run has returned, the
\* queue is shut down and no worker was started although an agent exists.
SyncNeverCompletedWitness ==
    /\ runPc = "returned"
    /\ ~informer.hasSynced
    /\ wq.shuttingDown
    /\ \A w \in WorkerIds : pc[w] = "init"
    /\ \E k \in Keys : agents[k] # NotFound

\* C6 (as claimed): a reconcile that found no Pod and created one leaves a Pod
\* carrying the image of the Agent it read.
CreateCarriesDesiredImage ==
    \A w \in WorkerIds :
        (pc[w] = "result" /\ ~err[w] /\ "Create" \in calls[w]) =>
            pods[wkey[w]] = agent[w]

\* C7 (as claimed): a reconcile that found a Pod whose image differs from the
\* image of the Agent it read calls Update and leaves the Pod with that image.
UpdateOnImageMismatch ==
    \A w \in WorkerIds :
        (pc[w] = "result" /\ ~err[w] /\ agent[w] \in Images /\ "Create" \notin calls[w]) =>
            \/ pods[wkey[w]] = agent[w]
            \/ "Update" \in calls[w]

\* C8 (as claimed): a reconcile that found the Agent gone returns success only
\* with the Pod of the key deleted.
DeleteOnAgentGone ==
    \A w \in WorkerIds :
        (pc[w] = "result" /\ ~err[w] /\ agent[w] = NotFound) =>
            pods[wkey[w]] = NotFound

\* C9 (as claimed): after the failure that drops a key its counter is zero and
\* no re-add of the key is pending.
DropLeavesNoRetryPending ==
    [][\A w \in WorkerIds : DropStep(w) =>
            /\ failures'[wkey[w]] = 0
            /\ wkey[w] \notin waiting']_vars

\* C9 (amended): a failing key is re-added with backoff only while its retry
\* count is below maxRetries, the count never exceeds maxRetries, and the next
\* failure resets the count and itself adds nothing to the queue or to the
\* delayed adds.
RetryCeiling ==
    /\ [](\A k \in Keys : failures[k] <= maxRetries)
    /\ [][\A w \in WorkerIds : RetryStep(w) =>
            /\ failures'[wkey[w]] = failures[wkey[w]] + 1
            /\ (~wq.shuttingDown => wkey[w] \in waiting')]_vars
    /\ [][\A w \in WorkerIds : DropStep(w) =>
            /\ failures[wkey[w]] = maxRetries
            /\ failures'[wkey[w]] = 0
            /\ waiting' = waiting
            /\ wq' = wq]_vars

\* C9 witness: a worker has just dropped a key after maxRetries retries.
DropWitness ==
    \E w \in WorkerIds :
        /\ pc[w] = "done"
        /\ err[w]
        /\ failures[wkey[w]] = 0
        /\ wkey[w] \notin waiting

FatalErrorNotRequeued ==
    [][\A w \in WorkerIds :
            (pc[w] = "result" /\ pc'[w] = "done" /\ err[w] /\ fatal[w]) =>
                /\ failures'[wkey[w]] <= failures[wkey[w]]
                /\ waiting' = waiting]_vars

\* C13 (as claimed): when Run has returned after the stop signal, no worker is
\* still inside a reconcile and no key is left in processing.
GracefulStop ==
    runPc \in {"returned", "exited"} =>
        /\ wq.processing = {}
        /\ \A w \in WorkerIds : pc[w] \notin Holding

\* C14 (as claimed): once Run has seen the stop signal and shut the queue down,
\* no worker is handed a key and starts a reconcile.
NoDequeueAfterStop ==
    [][(stopCh /\ wq.shuttingDown) =>
            \A w \in WorkerIds : ~(pc[w] = "get" /\ pc'[w] = "getAgent")]_vars

\* C15: after ShutDown an Add from a handler, a resync or a ready delayed add
\* leaves the queue as it was, AddRateLimited schedules nothing, and the set
\* of pending keys never gains a key.
ShutDownDropsAdds ==
    /\ [][\A k \in Keys : (AddStep(k) /\ wq.shuttingDown) => wq' = wq]_vars
    /\ [][wq.shuttingDown =>
            /\ wq'.shuttingDown
            /\ wq'.dirty \subseteq wq.dirty
            /\ waiting' \subseteq waiting]_vars
    /\ [][\A w \in WorkerIds : (RetryStep(w) /\ wq.shuttingDown) =>
            wkey[w] \notin waiting' \ waiting]_vars

\* C15 witness: the queue is shut down and empty while a notification and a
\* delayed retry of a key are still to be delivered to it.
ShutDownAddWitness ==
    \E k \in Keys :
        /\ wq.shuttingDown
        /\ wq.queue = <<>>
        /\ k \notin wq.dirty
        /\ k \in informer.notify
        /\ informer.state = "running"
        /\ k \in waiting

\* C16 (as claimed): when Shutdown has returned, every task that SubmitTask
\* had sent before Shutdown was called has been dispatched exactly once: one
\* call of the adapter method of its Action, with that task.
SubmittedTasksDispatchedOnce ==
    sdPc = "returned" =>
        \A n \in 1..sentBefore :
            Method(sent[n].Action) # "none" =>
                /\ Cardinality(CallsFor(n)) = 1
                /\ \A i \in CallsFor(n) :
                        adapterCalls[i] = [method |-> Method(sent[n].Action), task |-> sent[n]]

\* C17: the keys in processing are the keys the workers hold, never more than
\* there are workers; and with worker 1 free to block for ever, a key pending
\* in the queue is handed to a worker, and a key another worker holds is
\* reconciled to the end.
CrossKeyParallelism ==
    /\ [](Cardinality(wq.processing) <= NumWorkers)
    /\ [](wq.processing = {wkey[w] : w \in {x \in WorkerIds : pc[x] \in Holding}})
    /\ \A k \in ParKeys : InSeq(wq.queue, k) ~> (k \in wq.processing)
    /\ \A k \in ParKeys, w \in WorkerIds \ {1} :
            (pc[w] \in Holding /\ wkey[w] = k) ~>
                (pc[w] = "done" /\ wkey[w] = k /\ pods[k] # NotFound)

\* C17 witness: worker 1 is inside the reconcile of one key, another worker
\* has meanwhile finished the reconcile of a second key, and a third key is
\* pending.
ParallelWitness ==
    \E k1, k2, k3 \in ParKeys, w \in WorkerIds \ {1} :
        /\ k1 # k2 /\ k3 \notin {k1, k2}
        /\ pc[1] = "getPod" /\ wkey[1] = k1 /\ pods[k1] = NotFound
        /\ pc[w] = "done" /\ wkey[w] = k2 /\ pods[k2] # NotFound
        /\ InSeq(wq.queue, k3)
        /\ wq.processing = {k1, k2}

\* C18: each reconcile of a key reads the Agent's current version, which is
\* never older than the version the reconcile before it read; a reconcile that
\* succeeds never follows one that succeeded with a newer version; and once
\* no notification, queue entry or reconcile of the key is outstanding, the
\* latest version is the one last read and last applied.
PerKeyOrdering ==
    /\ [][\A w \in WorkerIds :
            (pc[w] = "getAgent" /\ pc'[w] \in {"getPod", "result"}) =>
                /\ readVer'[w] = ver[wkey[w]]
                /\ readVer'[w] >= lastRead[wkey[w]]]_vars
    /\ [][\A w \in WorkerIds : SuccessStep(w) =>
            /\ readVer[w] >= applied[wkey[w]]
            /\ applied'[wkey[w]] = readVer[w]]_vars
    /\ [](\A k \in Keys :
            (/\ informer.hasSynced
             /\ k \notin informer.notify
             /\ ~InSeq(wq.queue, k)
             /\ k \notin wq.dirty \cup wq.processing) =>
                /\ lastRead[k] = ver[k]
                /\ applied[k] = ver[k])

\* C18 witness: a reconcile has read the second modification of an Agent
\* after an earlier reconcile applied the first, and a third notification
\* came while it ran.
NewerVersionWitness ==
    \E w \in WorkerIds :
        /\ pc[w] = "result"
        /\ readVer[w] = 2
        /\ applied[wkey[w]] = 1
        /\ wkey[w] \in wq.dirty

\* C19: a key a worker holds is in processing from the Get that handed it out,
\* through each of the three outcomes, until the one Done that the worker
\* calls for it; no other step takes a key out of processing; and a worker
\* that has its reconcile's result reaches that Done unless the process exits.
GetDonePairing ==
    /\ [](\A w \in WorkerIds : pc[w] \in Holding =>
            /\ wkey[w] \in wq.processing
            /\ wkey[w] \in Keys)
    /\ [](\A k \in wq.processing : Cardinality(Reconciling(k)) = 1)
    /\ [][\A w \in WorkerIds : (SuccessStep(w) \/ RetryStep(w) \/ DropStep(w)) =>
            /\ wkey'[w] = wkey[w]
            /\ wkey[w] \in wq'.processing]_vars
    /\ [][\A w \in WorkerIds : pc[w] = "done" =>
            \/ pc'[w] = "done" /\ wkey'[w] = wkey[w]
            \/ pc'[w] = "exited"
            \/ DoneStep(w) /\ wkey[w] \notin wq'.processing]_vars
    /\ [][\A k \in Keys : (k \in wq.processing /\ k \notin wq'.processing) =>
            \E w \in WorkerIds : wkey[w] = k /\ DoneStep(w)]_vars
    /\ \A w \in WorkerIds :
            (pc[w] = "result") ~> (pc[w] = "get" \/ ~Alive)

\* C19 witness: a worker that dropped a key at the retry ceiling has not yet
\* called Done: the key is still in processing.
DoneAfterDropWitness ==
    \E w \in WorkerIds :
        /\ pc[w] = "done"
        /\ err[w]
        /\ streak[wkey[w]] = 0
        /\ failures[wkey[w]] = 0
        /\ wkey[w] \in wq.processing
        /\ wkey[w] \in wq.dirty

\* C20: Forget is called only by a reconcile that succeeded or that failed at
\* the retry ceiling; a failure below the ceiling keeps the count, adds one to
\* it and, unless the queue is shut down, schedules the delayed re-add.
ForgetOnlyWhenSettled ==
    /\ [][\A k \in Keys : (streak[k] > 0 /\ streak'[k] = 0) =>
            \E w \in WorkerIds :
                /\ wkey[w] = k
                /\ pc[w] = "result" /\ pc'[w] = "done"
                /\ (err[w] => NumRequeues(failures, k) >= maxRetries)]_vars
    /\ [][\A w \in WorkerIds :
            (pc[w] = "result" /\ pc'[w] = "done" /\ err[w]
                /\ NumRequeues(failures, wkey[w]) < maxRetries) =>
                /\ streak'[wkey[w]] = streak[wkey[w]]
                /\ failures'[wkey[w]] = failures[wkey[w]] + 1
                /\ (wq.shuttingDown \/ wkey[w] \in waiting')]_vars

\* C20 witness: a second failure in a row, below the ceiling, has been
\* re-added with backoff and its count kept.
RetryKeepsCountWitness ==
    \E w \in WorkerIds :
        /\ pc[w] = "done"
        /\ err[w]
        /\ failures[wkey[w]] = 2
        /\ streak[wkey[w]] = 2
        /\ lastDelay[wkey[w]] = 2 * BaseDelay
        /\ wkey[w] \in waiting

\* C21: Done puts a key back in the queue exactly when the key was marked
\* dirty during the run; a key enters the queue only by an Add or by such a
\* Done; and for every key the reconciles started never outnumber its enqueue
\* events.
NoSpuriousReruns ==
    /\ [](\A k \in Keys : credit[k] >= 0)
    /\ [][\A w \in WorkerIds : DoneStep(w) =>
            (InSeq(wq'.queue, wkey[w]) <=> wkey[w] \in wq.dirty)]_vars
    /\ [][\A k \in Keys : (~InSeq(wq.queue, k) /\ InSeq(wq'.queue, k)) =>
            \/ AddStep(k)
            \/ \E w \in WorkerIds : wkey[w] = k /\ DoneStep(w) /\ k \in wq.dirty]_vars

\* C21 witness: a key has been reconciled as often as it was enqueued, its
\* last Done found it clean, and nothing is pending for it.
NoRerunWitness ==
    \E k \in Keys :
        /\ credit[k] = 0
        /\ pods[k] # NotFound
        /\ failures[k] = 0
        /\ ~Active(k)
        /\ k \notin informer.notify
        /\ \A w \in WorkerIds : pc[w] = "get"

RetryCountRange ==
    /\ [](\A k \in Keys : failures[k] \in 0..maxRetries)
    /\ [][\A k \in Keys : failures'[k] > failures[k] =>
            /\ failures'[k] = failures[k] + 1
            /\ \E w \in WorkerIds : wkey[w] = k /\ RetryStep(w) /\ pc'[w] = "done"]_vars
    /\ [][\A k \in Keys : failures'[k] # failures[k] =>
            \E w \in WorkerIds : wkey[w] = k /\ pc[w] = "result" /\ pc'[w] = "done"]_vars

\* C23 witness: the fifth failure in a row of a key has been re-queued; its
\* retry count is at the ceiling.
RetryCountAtCeilingWitness ==
    \E w \in WorkerIds :
        /\ pc[w] = "done"
        /\ err[w]
        /\ failures[wkey[w]] = maxRetries
        /\ streak[wkey[w]] = maxRetries
        /\ wkey[w] \in waiting

\* C24 (as claimed): Get reports the queue closed only when it is shut down
\* and empty, and every worker that was started gets that report and leaves
\* its loop: none is still in the loop when the process has ended.
DrainThenWorkersExit ==
    /\ [][\A w \in WorkerIds : (pc[w] = "get" /\ pc'[w] = "exited") =>
            wq.shuttingDown /\ wq.queue = <<>>]_vars
    /\ [](runPc = "exited" => \A w \in WorkerIds : pc[w] \in {"init", "exited"})

\* C25: the handler of a notification changes the queue in the same way for
\* every type of event: it adds the key; and a reconcile makes its one adapter
\* call, the Create, only on what it read for the key: the Agent present and
\* the Pod absent.
LevelTriggered ==
    /\ [][\A k \in Keys :
            (k \in informer.notify /\ k \notin informer'.notify
                /\ informer'.state = "running") =>
                \A t \in EventTypes : wq' = OnEvent(wq, k, t) /\ wq' = Add(wq, k)]_vars
    /\ [](\A w \in WorkerIds : calls[w] \subseteq {"Create"})
    /\ [][\A w \in WorkerIds : ("Create" \in calls'[w] /\ "Create" \notin calls[w]) =>
            /\ agent[w] \in Images
            /\ pods[wkey[w]] = NotFound]_vars

\* C25 witness: the notification of an Agent's deletion has been handled like
\* any other: the key of the deleted Agent, whose Pod exists, is in the queue.
DeleteEventWitness ==
    \E k \in Keys :
        /\ agents[k] = NotFound
        /\ pods[k] # NotFound
        /\ k \notin informer.notify
        /\ InSeq(wq.queue, k)
        /\ informer.state = "running"

\* C26: a resync leaves a notification pending for every Agent that exists,
\* and whenever the Pod of an existing Agent is missing, whether its
\* notification was lost or the Pod disappeared, the Pod exists again later.
ResyncHeals ==
    /\ [][(informer.hasSynced /\ informer.notify \subseteq informer'.notify
            /\ informer'.notify # informer.notify) =>
                Listed \subseteq informer'.notify]_vars
    /\ \A k \in Keys :
            (agents[k] # NotFound /\ pods[k] = NotFound) ~> (pods[k] # NotFound)

\* C26 witness: after a notification was lost, an Agent has no Pod and nothing
\* in the queue or with a worker, and a resync has notified its key again.
ResyncAfterLossWitness ==
    \E k \in Keys :
        /\ lost = 1
        /\ agents[k] # NotFound
        /\ pods[k] = NotFound
        /\ ~Active(k)
        /\ \A w \in WorkerIds : pc[w] = "get"
        /\ k \in informer.notify

\* C27: a step that changes an Agent resource is a step of the API's users
\* alone: it moves no worker, touches neither the queue, the rate limiter, the
\* delayed adds nor the Pods, and is no step of Run; so no step of the
\* controller changes an Agent.
DesiredStateReadOnly ==
    [][agents' # agents =>
        /\ pods' = pods
        /\ wq' = wq
        /\ failures' = failures
        /\ waiting' = waiting
        /\ stopCh' = stopCh
        /\ runPc' = runPc
        /\ pc' = pc
        /\ wkey' = wkey
        /\ calls' = calls
        /\ informer'.state = informer.state
        /\ informer'.hasSynced = informer.hasSynced
        /\ informer.notify \subseteq informer'.notify]_vars

\* C27 witness: the controller has enqueued, reconciled, retried, created the
\* Pod and shut down, and the Agent is still there with its image.
AgentUntouchedWitness ==
    \E k \in Keys :
        /\ runPc = "returned"
        /\ wq.shuttingDown
        /\ pods[k] # NotFound
        /\ failures[k] > 0
        /\ agents[k] = "v1"
        /\ \E w \in WorkerIds : pc[w] = "done" /\ wkey[w] = k

\* C28: a reconcile that reads the Pod and finds it present, or reads the
\* Agent and finds it gone, returns at once with no adapter call made and the
\* Pods as they were; no step of a reconcile changes the Pod of a key that has
\* one; and a reconcile of an existing Agent that succeeds leaves a Pod, so
\* that the next one finds it and does nothing.
ReconcileIdempotent ==
    /\ [][\A w \in WorkerIds :
            (pc[w] = "getPod" /\ pc'[w] # "getPod" /\ pods[wkey[w]] # NotFound) =>
                pc'[w] = "result" /\ calls'[w] = {} /\ pods' = pods]_vars
    /\ [][\A w \in WorkerIds :
            (pc[w] = "getAgent" /\ pc'[w] # "getAgent" /\ agents[wkey[w]] = NotFound) =>
                pc'[w] = "result" /\ calls'[w] = {} /\ pods' = pods]_vars
    /\ [][\A w \in WorkerIds :
            (pc[w] \in Holding /\ pods[wkey[w]] # NotFound) => pods' = pods]_vars
    /\ [][\A w \in WorkerIds : (SuccessStep(w) /\ agent[w] \in Images) =>
            pods[wkey[w]] # NotFound]_vars

\* C28 witness: a reconcile of an Agent whose Pod an earlier reconcile created
\* has returned nil without any adapter call.
SecondReconcileNoOpWitness ==
    \E w \in WorkerIds :
        /\ pc[w] = "result"
        /\ ~err[w]
        /\ agent[w] \in Images
        /\ calls[w] = {}
        /\ pods[wkey[w]] # NotFound

\* C29: a reconcile whose API call is outstanding (the Agent read, the Pod
\* read or the Pod create) is ended in time: the worker reaches the result of
\* the reconcile, unless the process has ended. reconcile and
\* K8sAdapter.Reconcile pass context.TODO() to every call and set no deadline,
\* so nothing in the controller makes an outstanding call return.
HungCallEnded ==
    \A w \in WorkerIds :
        (Alive /\ pc[w] \in {"getAgent", "getPod", "createPod"})
            ~> (~Alive \/ pc[w] \in {"result", "done", "idle"})

\* C30: every adapter call is the method of its task's Action (CREATE:
\* DeployAgent, UPDATE: UpdateAgent, DELETE: DeleteAgent) and carries the task
\* as it was submitted; no task is passed to the adapter twice; and when
\* handleTask has returned for a task, a task with one of the three actions
\* has had exactly one call and handleTask returned what that call returned,
\* while a task with any other action has had no call and handleTask returned
\* nil.
DispatchByAction ==
    /\ \A i \in 1..Len(adapterCalls) :
        LET c == adapterCalls[i]
        IN /\ c.task.seq \in 1..Len(sent)
           /\ c.task = sent[c.task.seq]
           /\ c.task.Action = "CREATE" => c.method = "DeployAgent"
           /\ c.task.Action = "UPDATE" => c.method = "UpdateAgent"
           /\ c.task.Action = "DELETE" => c.method = "DeleteAgent"
           /\ c.task.Action \in {"CREATE", "UPDATE", "DELETE"}
    /\ \A n \in 1..Len(sent) : Cardinality(CallsFor(n)) <= 1
    /\ \A n \in 1..MaxTasks :
        oret[n] # "none" =>
            /\ n \in 1..Len(sent)
            /\ IF sent[n].Action \in {"CREATE", "UPDATE", "DELETE"}
               THEN /\ Cardinality(CallsFor(n)) = 1
                    /\ adapterRet[n] \in AdapterErrors
                    /\ oret[n] = adapterRet[n]
               ELSE /\ CallsFor(n) = {}
                    /\ adapterRet[n] = "none"
                    /\ oret[n] = "nil"

\* C30 witness: handleTask has returned for two tasks: an UPDATE task whose
\* UpdateAgent call failed, and a task with an action outside the three, for
\* which no call was made.
DispatchWitness ==
    \E n, m \in 1..Len(sent) :
        /\ sent[n].Action = "UPDATE"
        /\ oret[n] = "failed"
        /\ \E i \in CallsFor(n) : adapterCalls[i].method = "UpdateAgent"
        /\ sent[m].Action = "RESTART"
        /\ oret[m] = "nil"
        /\ CallsFor(m) = {}

\* C31: in no execution of main is close(stopCh) executed a second time.
\* Run returns only once stopCh is closed, which only the signal goroutine
\* does, and main's deferred close(stopCh) then closes it again.
StopChClosedOnce == closes <= 1

\* C32: a step in which a handler or a ready delayed add calls queue.Add
\* leaves every retry count as it was; a key's count changes only in a step
\* of the worker that holds the key: by one upwards when a failed reconcile
\* is re-queued, to zero when the reconcile succeeded or was dropped at the
\* ceiling.
EnqueueKeepsRetryCount ==
    /\ [][\A k \in Keys : AddStep(k) => failures' = failures]_vars
    /\ [][\A k \in Keys : failures'[k] # failures[k] =>
            \E w \in WorkerIds :
                /\ wkey[w] = k
                /\ \/ RetryStep(w) /\ failures'[k] = failures[k] + 1
                   \/ (SuccessStep(w) \/ DropStep(w)) /\ failures'[k] = 0]_vars

\* C32 witness: a key that failed twice waits in backoff, and a notification
\* that arrived meanwhile has put it in the queue; its count is still two.
NotifiedInBackoffWitness ==
    \E k \in Keys :
        /\ k \in waiting
        /\ failures[k] = 2
        /\ noise[k]
        /\ InSeq(wq.queue, k)

\* C33: once Shutdown has cancelled the context and waits for the workers,
\* every worker exits and Shutdown returns, whether or not tasks are still
\* in the channel's buffer.
ShutdownTerminates ==
    /\ (sdPc = "wait") ~>
            (sdPc = "returned" /\ \A w \in WorkerIds : opc[w] \in {"exited", "none"})
    /\ (sdPc = "wait" /\ taskQueue # <<>>) ~> (sdPc = "returned")

\* C33 witness: Shutdown has returned and the workers have exited while a
\* task is still in the buffer.
ShutdownWithBufferedTaskWitness ==
    /\ sdPc = "returned"
    /\ taskQueue # <<>>
    /\ \E w \in WorkerIds : opc[w] = "exited"
    /\ ~panicked

\* C34: no SubmitTask call sends on the closed task channel, whether it runs
\* before, during or after Shutdown. SubmitTask sends unconditionally and
\* Shutdown closes the channel, so a SubmitTask after Shutdown panics.
SubmitNeverPanics == ~panicked

\* C35: the adapter calls for tasks of one agent are made in the order the
\* tasks were submitted, and no two workers are inside adapter calls for the
\* same agent at once. Each worker receives from the shared channel and calls
\* the adapter on its own, so with two workers both fail.
PerAgentTaskOrdering ==
    /\ \A i, j \in 1..Len(adapterCalls) :
        (i < j /\ adapterCalls[i].task.AgentID = adapterCalls[j].task.AgentID) =>
            adapterCalls[i].task.seq < adapterCalls[j].task.seq
    /\ \A w, v \in WorkerIds :
        (w # v /\ opc[w] = "call" /\ opc[v] = "call") =>
            otask[w].AgentID # otask[v].AgentID

\* C36: canActivate emits true exactly when the auth state it read is not
\* loading, is authenticated and, if the route declares a role, has a user
\* whose roles contain it.  Otherwise it emits false: while loading without
\* any call, when not loading and unauthenticated after calling login, when
\* authenticated without the declared role after navigating to /unauthorized.
GuardAdmitsOnlyAuthorized ==
    guard.called =>
        LET st == guard.state
            held == guard.role = NoRole \/ guard.role \in st.user.roles
        IN /\ guard.result <=> (~st.loading /\ st.isAuthenticated /\ held)
           /\ guard.effect = "login" <=> (~st.loading /\ ~st.isAuthenticated)
           /\ guard.effect = "unauthorized" <=>
                    (~st.loading /\ st.isAuthenticated /\ ~held)
           /\ guard.effect \in {"none", "login", "unauthorized"}
           /\ guard.result => guard.effect = "none"

\* C36 witness: the guard has admitted a route that requires the admin role,
\* for a user who holds it.
GuardAdmitsAdminWitness ==
    /\ guard.called
    /\ guard.result
    /\ guard.role = "admin"
    /\ "admin" \in guard.state.user.roles

\* C37: once logout has run, the auth state is unauthenticated with no user
\* and no token until the application is loaded anew by a login; and an
\* unauthenticated state never carries a user or a token.  updateAuthState
\* publishes the authenticated state whenever loadUserProfile resolves, also
\* after a logout.
LogoutSticks ==
    /\ loggedOut # "no" =>
            (~authState.isAuthenticated /\ authState.user = NoUser
                /\ authState.token = NoToken)
    /\ ~authState.isAuthenticated =>
            (authState.user = NoUser /\ authState.token = NoToken)

====
